---- MODULE Spec2Model ----
(***************************************************************************)
(* Session store and request handlers of rag-service/main.py.              *)
(*                                                                         *)
(* The four endpoints are synchronous FastAPI handlers, so they run on a   *)
(* thread pool and interleave between the statements that touch the        *)
(* shared `sessions` dict and the clock.  Each handler is a small program  *)
(* whose position is req[w].pc; one action is one such statement.          *)
(***************************************************************************)
EXTENDS Integers, Sequences, FiniteSets, TLC

(***************************************************************************)
(* Program constants and bounds                                            *)
(***************************************************************************)
SESSION_TIMEOUT == 3600

\* worker threads of the pool
NumWorkers == 2
\* documents ingested in one run (uuid4 values drawn)
MaxDocs == 2
\* seconds past SESSION_TIMEOUT the clock gets to in one run
MaxLate == 1
\* longest doc_ids list of a request
MaxSel == 2
\* requests accepted in one run
MaxRequests == 3

Workers == 1..NumWorkers
SessionIds == {"s1", "s2"}
DocIds == 1..MaxDocs

Ops == {"process_pdf", "ask", "summarize", "compare"}
Queries == {"ask", "summarize", "compare"}

RECURSIVE SeqsUpTo(_, _)
SeqsUpTo(S, n) ==
    IF n = 0 THEN {<<>>}
    ELSE LET shorter == SeqsUpTo(S, n - 1)
         IN  shorter \cup {Append(q, x) : q \in shorter, x \in S}

\* the doc_ids lists a request may carry (duplicates and unknown ids included)
DocIdLists == SeqsUpTo(DocIds, MaxSel)

VARIABLES
    sessions,   \* session_id -> [docs: doc ids in insertion order, last_accessed]
    now,        \* the value time.time() returned last
    uuid_ctr,   \* number of uuid4 values drawn so far
    req,        \* worker -> the request it handles and that handler's locals
    pool,       \* how many requests the server handles at the same time
    served,     \* number of requests accepted so far
    snap,       \* the session map as it was when the latest request arrived
    search,     \* a call of merged_similarity_search: arguments, locals, result
    answer      \* a call of a sanitizer: raw text, cleaned text

vars == <<sessions, now, uuid_ctr, req, pool, served, snap, search, answer>>

(***************************************************************************)
(* Response bodies                                                         *)
(***************************************************************************)
MsgProcessed == "PDF processed successfully"
MsgNoChunks == "No text chunks generated from the PDF. Please check your file."
MsgGenerated == "<extract_clean_answer(generate_response(prompt))>"
MsgNotFound == "404 Not Found"
FaultSweepKey == "500 KeyError in cleanup_expired_sessions"
FaultSweepIter == "500 RuntimeError in cleanup_expired_sessions: dictionary changed size during iteration"
FaultIngestKey == "500 KeyError in process_pdf"

MsgSessionExpired(op) ==
    IF op = "compare"
    THEN "Session expired or no PDFs uploaded for this session."
    ELSE "Session expired or no PDF uploaded for this session."

MsgNoDocuments(op) ==
    IF op = "compare"
    THEN "Could not find enough documents in the session. Please re-upload."
    ELSE "No documents found for the selected session."

MsgNeedTwo == "Please select at least 2 documents to compare."

MsgNoContext(op) ==
    IF op = "summarize"
    THEN "No document context available to summarize."
    ELSE "No relevant context found in the selected documents."

(***************************************************************************)
(* Helpers on the session map                                              *)
(***************************************************************************)
Range(q) == {q[i] : i \in 1..Len(q)}

Without(m, k) == [x \in DOMAIN m \ {k} |-> m[x]]

With(m, k, v) == [x \in DOMAIN m \cup {k} |-> IF x = k THEN v ELSE m[x]]

\* a sweep that also evicts a session exactly at the timeout
IsExpiredAtTimeout(current_time, data) ==
    current_time - data.last_accessed >= SESSION_TIMEOUT

\* a sweep that subtracts the wrong way round
IsExpiredSwapped(current_time, data) ==
    data.last_accessed - current_time > SESSION_TIMEOUT

\* the condition of the comprehension in cleanup_expired_sessions
IsExpired(current_time, data) ==
    current_time - data.last_accessed > SESSION_TIMEOUT

\* {"docs": {}, "last_accessed": time.time()}
NewSession(t) == [docs |-> <<>>, last_accessed |-> t]

RECURSIVE SelectDocs(_, _)
\* [all_docs[d] for d in doc_ids if d in all_docs]
SelectDocs(all_docs, doc_ids) ==
    IF doc_ids = <<>> THEN <<>>
    ELSE LET rest == SelectDocs(all_docs, Tail(doc_ids))
         IN  IF Head(doc_ids) \in Range(all_docs)
             THEN <<Head(doc_ids)>> \o rest
             ELSE rest

\* a lookup that finds a listed doc id in whichever session holds it
GetDocsOfAnySession(m, session_id, doc_ids) ==
    IF session_id \notin DOMAIN m THEN <<>>
    ELSE IF doc_ids # <<>>
         THEN SelectSeq(doc_ids, LAMBDA d : \E s \in DOMAIN m : d \in Range(m[s].docs))
         ELSE m[session_id].docs

\* get_session_docs, evaluated on the map m
get_session_docs(m, session_id, doc_ids) ==
    IF session_id \notin DOMAIN m THEN <<>>
    ELSE LET all_docs == m[session_id].docs
         IN  IF doc_ids # <<>> THEN SelectDocs(all_docs, doc_ids)
             ELSE all_docs

(***************************************************************************)
(* Handler records                                                         *)
(***************************************************************************)
Idle ==
    [pc |-> "idle", op |-> "none", session_id |-> "none", doc_ids |-> <<>>,
     has_text |-> FALSE, current_time |-> 0, size |-> 0, visited |-> {},
     expired |-> {}, doc_id |-> 0, t |-> 0, ref |-> "none",
     vectorstores |-> <<>>, retrieved |-> FALSE, generated |-> FALSE,
     result |-> "none"]

\* a thread is free before its first request and after it returned a response
Free(w) == req[w].pc \in {"idle", "done"}

Active == {w \in Workers : ~Free(w)}

\* ingests that will still draw a uuid
PendingIds ==
    Cardinality({w \in Workers : req[w].op = "process_pdf"
                                 /\ req[w].pc \in {"sweep", "iter", "del", "load"}})

\* the first statement of a handler after cleanup_expired_sessions()
AfterSweep(op) == IF op = "process_pdf" THEN "load" ELSE "get"

\* the handler returns: its locals are gone, the request and the response stay
Finish(r, msg) ==
    [Idle EXCEPT !.pc = "done", !.op = r.op, !.session_id = r.session_id,
                 !.doc_ids = r.doc_ids, !.has_text = r.has_text,
                 !.current_time = r.current_time, !.doc_id = r.doc_id,
                 !.retrieved = r.retrieved, !.generated = r.generated,
                 !.result = msg]

\* the JSON body the handler of r returned
Response(r) ==
    CASE r.result \in {FaultSweepKey, FaultSweepIter, FaultIngestKey, MsgNotFound}
            -> [detail |-> r.result]
      [] r.op = "process_pdf" /\ r.result = MsgNoChunks -> [error |-> r.result]
      [] r.op = "process_pdf" -> [message |-> r.result, doc_id |-> r.doc_id]
      [] r.op = "ask" -> [answer |-> r.result]
      [] r.op = "summarize" -> [summary |-> r.result]
      [] OTHER -> [comparison |-> r.result]

\* the session object under k leaves the map: references held to it go stale
Orphaned(k, r) ==
    IF r.session_id = k /\ r.ref = "live" THEN [r EXCEPT !.ref = "orphan"] ELSE r

\* no call of the function is under way
NoCall == [pc |-> "none"]

Init ==
    /\ sessions = <<>>
    /\ now = 0
    /\ uuid_ctr = 0
    /\ req = [w \in Workers |-> Idle]
    /\ pool = NumWorkers
    /\ served = 0
    /\ snap = <<>>
    /\ search = NoCall
    /\ answer = NoCall

\* a server that handles one request at a time
InitSeq ==
    /\ sessions = <<>>
    /\ now = 0
    /\ uuid_ctr = 0
    /\ req = [w \in Workers |-> Idle]
    /\ pool = 1
    /\ served = 0
    /\ snap = <<>>
    /\ search = NoCall
    /\ answer = NoCall

(***************************************************************************)
(* The clock                                                               *)
(***************************************************************************)
\* the instants the clock is read at: the start, one timeout later, and the
\* seconds after that
Instants == {0} \cup {SESSION_TIMEOUT + i : i \in 0..MaxLate}

\* time.time() returns the value it returned last, advanced or not
ClockRead(last) == {t \in Instants : t >= last}

(***************************************************************************)
(* Request arrival                                                         *)
(***************************************************************************)
\* the pool hands a request to its first free thread
FreeWorker(w) ==
    /\ Free(w)
    /\ Cardinality(Active) < pool
    /\ served < MaxRequests
    /\ \A v \in Workers : v < w => ~Free(v)

\* the responses returned so far have left the server
Delivered == [v \in Workers |-> IF req[v].pc = "done" THEN Idle ELSE req[v]]

Start(w) ==
    /\ FreeWorker(w)
    /\ \E op \in Ops :
          /\ op = "process_pdf" => uuid_ctr + PendingIds < MaxDocs
          /\ req' = [Delivered EXCEPT ![w] = [Idle EXCEPT !.pc = "sweep", !.op = op]]
    /\ served' = served + 1
    /\ snap' = sessions
    /\ UNCHANGED <<sessions, now, uuid_ctr, pool, search, answer>>

\* a request to a path the app registers no route for (reset, status)
Unrouted(w) ==
    /\ FreeWorker(w)
    /\ \E sid \in SessionIds :
          req' = [Delivered EXCEPT ![w] =
                     Finish([Idle EXCEPT !.op = "reset", !.session_id = sid], MsgNotFound)]
    /\ served' = served + 1
    /\ snap' = sessions
    /\ UNCHANGED <<sessions, now, uuid_ctr, pool, search, answer>>

(***************************************************************************)
(* cleanup_expired_sessions                                                *)
(***************************************************************************)
\* current_time = time.time(); iter(sessions.items()): the iterator remembers
\* the dict's size
SweepClock(w) ==
    /\ req[w].pc = "sweep"
    /\ \E time \in ClockRead(now) :
          /\ now' = time
          /\ req' = [req EXCEPT ![w].pc = "iter",
                                ![w].current_time = time,
                                ![w].size = Cardinality(DOMAIN sessions)]
    /\ UNCHANGED <<sessions, uuid_ctr, pool, search, answer, served, snap>>

\* one next() of the comprehension's loop
SweepNext(w) ==
    LET r == req[w] IN
    /\ r.pc = "iter"
    /\ IF Cardinality(DOMAIN sessions) # r.size
       THEN req' = [req EXCEPT ![w] = Finish(r, FaultSweepIter)]
       ELSE IF DOMAIN sessions \subseteq r.visited
       THEN req' = [req EXCEPT ![w].pc =
                        IF r.expired = {} THEN AfterSweep(r.op) ELSE "del",
                                ![w].size = 0, ![w].visited = {}]
       ELSE \E sid \in DOMAIN sessions \ r.visited :
               req' = [req EXCEPT
                          ![w].visited = r.visited \cup {sid},
                          ![w].expired =
                              IF IsExpired(r.current_time, sessions[sid])
                              THEN r.expired \cup {sid} ELSE r.expired]
    /\ UNCHANGED <<sessions, now, uuid_ctr, pool, search, answer, served, snap>>

\* for sid in expired: del sessions[sid]
SweepDel(w) ==
    LET r == req[w] IN
    /\ r.pc = "del"
    /\ \E sid \in r.expired :
          IF sid \notin DOMAIN sessions
          THEN /\ req' = [req EXCEPT ![w] = Finish(r, FaultSweepKey)]
               /\ UNCHANGED sessions
          ELSE /\ sessions' = Without(sessions, sid)
               /\ req' = [v \in Workers |->
                            IF v = w
                            THEN [r EXCEPT !.expired = r.expired \ {sid},
                                           !.pc = IF r.expired = {sid}
                                                  THEN AfterSweep(r.op) ELSE "del"]
                            ELSE Orphaned(sid, req[v])]
    /\ UNCHANGED <<now, uuid_ctr, pool, search, answer, served, snap>>

(***************************************************************************)
(* process_pdf                                                             *)
(***************************************************************************)
\* an ingest without the `if not chunks` return
IngestLoadUnchecked(w) ==
    LET r == req[w] IN
    /\ r.pc = "load"
    /\ \E has_text \in BOOLEAN, session_id \in SessionIds :
          /\ req' = [req EXCEPT ![w].pc = "chk", ![w].has_text = has_text,
                                ![w].session_id = session_id,
                                ![w].doc_id = uuid_ctr + 1]
          /\ uuid_ctr' = uuid_ctr + 1
    /\ UNCHANGED <<sessions, now, pool, search, answer, served, snap>>

\* load, split; `if not chunks: return error`; build the index; uuid4()
IngestLoad(w) ==
    LET r == req[w] IN
    /\ r.pc = "load"
    /\ \E has_text \in BOOLEAN, session_id \in SessionIds :
          IF ~has_text
          THEN /\ req' = [req EXCEPT ![w] =
                             Finish([r EXCEPT !.session_id = session_id], MsgNoChunks)]
               /\ UNCHANGED uuid_ctr
          ELSE /\ req' = [req EXCEPT ![w].pc = "chk", ![w].has_text = TRUE,
                                     ![w].session_id = session_id,
                                     ![w].doc_id = uuid_ctr + 1]
               /\ uuid_ctr' = uuid_ctr + 1
    /\ UNCHANGED <<sessions, now, pool, search, answer, served, snap>>

\* if data.session_id not in sessions:
IngestCheck(w) ==
    LET r == req[w] IN
    /\ r.pc = "chk"
    /\ req' = [req EXCEPT ![w].pc =
                  IF r.session_id \notin DOMAIN sessions THEN "mk_clk" ELSE "add"]
    /\ UNCHANGED <<sessions, now, uuid_ctr, pool, search, answer, served, snap>>

\* the time.time() of the new session's dict display
IngestNewClock(w) ==
    /\ req[w].pc = "mk_clk"
    /\ \E time \in ClockRead(now) :
          /\ now' = time
          /\ req' = [req EXCEPT ![w].pc = "mk", ![w].t = time]
    /\ UNCHANGED <<sessions, uuid_ctr, pool, search, answer, served, snap>>

\* sessions[data.session_id] = {...}: replaces whatever is stored under the id
IngestNew(w) ==
    LET r == req[w] IN
    /\ r.pc = "mk"
    /\ sessions' = With(sessions, r.session_id, NewSession(r.t))
    /\ req' = [v \in Workers |->
                 IF v = w THEN [r EXCEPT !.pc = "add"]
                 ELSE Orphaned(r.session_id, req[v])]
    /\ UNCHANGED <<now, uuid_ctr, pool, search, answer, served, snap>>

\* an ingest that forgets to store the index it built
IngestAddSkipped(w) ==
    LET r == req[w] IN
    /\ r.pc = "add"
    /\ req' = [req EXCEPT ![w].pc = "la_clk", ![w].t = 0]
    /\ UNCHANGED <<sessions, now, uuid_ctr, pool, search, answer, served, snap>>

\* sessions[data.session_id]["docs"][doc_id] = vectorstore
IngestAdd(w) ==
    LET r == req[w] IN
    /\ r.pc = "add"
    /\ IF r.session_id \notin DOMAIN sessions
       THEN /\ req' = [req EXCEPT ![w] = Finish(r, FaultIngestKey)]
            /\ UNCHANGED sessions
       ELSE /\ sessions' = [sessions EXCEPT ![r.session_id].docs =
                               IF r.doc_id \in Range(@) THEN @ ELSE Append(@, r.doc_id)]
            /\ req' = [req EXCEPT ![w].pc = "la_clk", ![w].t = 0]
    /\ UNCHANGED <<now, uuid_ctr, pool, search, answer, served, snap>>

\* the time.time() on the right of line 277
IngestTouchClock(w) ==
    /\ req[w].pc = "la_clk"
    /\ \E time \in ClockRead(now) :
          /\ now' = time
          /\ req' = [req EXCEPT ![w].pc = "la", ![w].t = time]
    /\ UNCHANGED <<sessions, uuid_ctr, pool, search, answer, served, snap>>

\* sessions[data.session_id]["last_accessed"] = <that value>; return
IngestTouch(w) ==
    LET r == req[w] IN
    /\ r.pc = "la"
    /\ IF r.session_id \notin DOMAIN sessions
       THEN /\ req' = [req EXCEPT ![w] = Finish(r, FaultIngestKey)]
            /\ UNCHANGED sessions
       ELSE /\ sessions' = [sessions EXCEPT ![r.session_id].last_accessed = r.t]
            /\ req' = [req EXCEPT ![w] = Finish(r, MsgProcessed)]
    /\ UNCHANGED <<now, uuid_ctr, pool, search, answer, served, snap>>

(***************************************************************************)
(* merged_similarity_search                                                *)
(*                                                                         *)
(* A vector store is the list of its chunks' page_content in the rank      *)
(* order its similarity_search gives them for the query; a chunk is known  *)
(* by its store, its rank and its page_content.                            *)
(***************************************************************************)
\* chunks in one store
MaxChunks == 2
\* stores passed to one call
MaxStores == 3
\* largest k of a call
MaxK == 2

Texts == {"alpha", "beta"}

Stores == SeqsUpTo(Texts, MaxChunks)

StoreLists == SeqsUpTo(Stores, MaxStores)

Max(a, b) == IF a >= b THEN a ELSE b

Min(a, b) == IF a <= b THEN a ELSE b

\* per_store_k with the doubling left unclamped
PerStoreKUnclamped(k, n) == (k * 2) \div Max(n, 1)

\* per_store_k = max(k, k * 2 // max(len(vectorstores), 1))
per_store_k(k, n) == Max(k, (k * 2) \div Max(n, 1))

\* vs.similarity_search(query, k=k) on store number i
similarity_search(vectorstores, i, k) ==
    [j \in 1..Min(k, Len(vectorstores[i])) |->
        [page_content |-> vectorstores[i][j], store |-> i, rank |-> j]]

\* a membership test on the chunk instead of its text
UnseenChunk(doc, results) ==
    \A i \in 1..Len(results) :
        <<results[i].store, results[i].rank>> # <<doc.store, doc.rank>>

\* doc.page_content not in seen (seen holds the page_content of results)
Unseen(doc, results) ==
    \A i \in 1..Len(results) : results[i].page_content # doc.page_content

RECURSIVE InnerLoop(_, _)
\* for doc in <found>: if unseen: seen.add(...); results.append(doc)
InnerLoop(found, results) ==
    IF found = <<>> THEN results
    ELSE InnerLoop(Tail(found),
                   IF Unseen(Head(found), results)
                   THEN Append(results, Head(found)) ELSE results)

RECURSIVE OuterLoop(_, _, _, _)
\* for vs in vectorstores: ...
OuterLoop(vectorstores, i, k, results) ==
    IF i > Len(vectorstores) THEN results
    ELSE OuterLoop(vectorstores, i + 1, k,
                   InnerLoop(similarity_search(vectorstores, i, k), results))

\* a cut at k entries whatever the number of stores
TruncatedToK(results, k, n) == SubSeq(results, 1, Min(k, Len(results)))

\* results[:k * len(vectorstores)]
Truncated(results, k, n) == SubSeq(results, 1, Min(k * n, Len(results)))

merged_similarity_search(vectorstores, k) ==
    Truncated(OuterLoop(vectorstores, 1,
                        per_store_k(k, Len(vectorstores)), <<>>),
              k, Len(vectorstores))

\* a call with some stores and some k >= 1, and nothing else going on
InitSearch ==
    /\ sessions = <<>>
    /\ now = 0
    /\ uuid_ctr = 0
    /\ req = [w \in Workers |-> Idle]
    /\ pool = 1
    /\ served = 0
    /\ snap = <<>>
    /\ answer = NoCall
    /\ \E vectorstores \in StoreLists, k \in 1..MaxK :
          search = [pc |-> "call", vectorstores |-> vectorstores, k |-> k,
                    per_store_k |-> 0, results |-> <<>>]

\* the call runs to its return
MergedSearch ==
    /\ search.pc = "call"
    /\ search' = [search EXCEPT
                     !.pc = "done",
                     !.per_store_k = per_store_k(search.k, Len(search.vectorstores)),
                     !.results = merged_similarity_search(search.vectorstores, search.k)]
    /\ UNCHANGED <<sessions, now, uuid_ctr, req, pool, served, snap, answer>>

SearchNext == MergedSearch

SearchSpec == InitSearch /\ [][SearchNext]_vars

(***************************************************************************)
(* ask_question, summarize_pdf, compare_documents                          *)
(***************************************************************************)
\* the handler reads data.doc_ids here for the first time
ReadsDocIds(op, pc) == IF op = "compare" THEN pc = "get" ELSE pc = "docs"

\* a lookup that creates the session it does not find
QueryGetCreates(w) ==
    /\ req[w].pc = "get"
    /\ \E session_id \in SessionIds,
          doc_ids \in IF ReadsDocIds(req[w].op, "get") THEN DocIdLists ELSE {<<>>} :
          LET r == [req[w] EXCEPT !.session_id = session_id, !.doc_ids = doc_ids] IN
          /\ sessions' = IF session_id \in DOMAIN sessions THEN sessions
                         ELSE With(sessions, session_id, NewSession(now))
          /\ req' = [req EXCEPT ![w] =
                        IF r.op = "compare" /\ Len(r.doc_ids) < 2
                        THEN Finish(r, MsgNeedTwo)
                        ELSE [r EXCEPT !.pc = "touch_clk", !.ref = "live"]]
    /\ UNCHANGED <<now, uuid_ctr, pool, search, answer, served, snap>>

\* session_data = sessions.get(id); if not session_data: return ...
\* compare: if len(data.doc_ids) < 2: return ...
QueryGet(w) ==
    /\ req[w].pc = "get"
    /\ \E session_id \in SessionIds,
          doc_ids \in IF ReadsDocIds(req[w].op, "get") THEN DocIdLists ELSE {<<>>} :
          LET r == [req[w] EXCEPT !.session_id = session_id, !.doc_ids = doc_ids] IN
          req' = [req EXCEPT ![w] =
                     IF r.session_id \notin DOMAIN sessions
                     THEN Finish(r, MsgSessionExpired(r.op))
                     ELSE IF r.op = "compare" /\ Len(r.doc_ids) < 2
                     THEN Finish(r, MsgNeedTwo)
                     ELSE [r EXCEPT !.pc = "touch_clk", !.ref = "live"]]
    /\ UNCHANGED <<sessions, now, uuid_ctr, pool, search, answer, served, snap>>

\* the time.time() on the right of session_data["last_accessed"] = ...
QueryTouchClock(w) ==
    /\ req[w].pc = "touch_clk"
    /\ \E time \in ClockRead(now) :
          /\ now' = time
          /\ req' = [req EXCEPT ![w].pc = "touch", ![w].t = time]
    /\ UNCHANGED <<sessions, uuid_ctr, pool, search, answer, served, snap>>

\* session_data["last_accessed"] = <that value>: a store into the object the
\* handler holds, which is the map's entry unless it was removed or replaced
QueryTouch(w) ==
    LET r == req[w] IN
    /\ r.pc = "touch"
    /\ sessions' = IF r.ref = "live"
                   THEN [sessions EXCEPT ![r.session_id].last_accessed = r.t]
                   ELSE sessions
    /\ req' = [req EXCEPT ![w].pc = "docs", ![w].t = 0, ![w].ref = "none"]
    /\ UNCHANGED <<now, uuid_ctr, pool, search, answer, served, snap>>

\* too few vector stores to go on
TooFew(op, vectorstores) ==
    IF op = "compare" THEN Len(vectorstores) < 2 ELSE vectorstores = <<>>

\* a handler without the `if not vectorstores` return
QueryDocsUnchecked(w) ==
    /\ req[w].pc = "docs"
    /\ \E doc_ids \in IF ReadsDocIds(req[w].op, "docs") THEN DocIdLists
                       ELSE {req[w].doc_ids} :
          LET r == [req[w] EXCEPT !.doc_ids = doc_ids]
              vs == get_session_docs(sessions, r.session_id, r.doc_ids)
          IN  req' = [req EXCEPT ![w] = [r EXCEPT !.pc = "search", !.vectorstores = vs]]
    /\ UNCHANGED <<sessions, now, uuid_ctr, pool, search, answer, served, snap>>

\* vectorstores = get_session_docs(...); if not vectorstores: return ...
QueryDocs(w) ==
    /\ req[w].pc = "docs"
    /\ \E doc_ids \in IF ReadsDocIds(req[w].op, "docs") THEN DocIdLists
                       ELSE {req[w].doc_ids} :
          LET r == [req[w] EXCEPT !.doc_ids = doc_ids]
              vs == get_session_docs(sessions, r.session_id, r.doc_ids)
          IN  req' = [req EXCEPT ![w] =
                         IF TooFew(r.op, vs)
                         THEN Finish(r, MsgNoDocuments(r.op))
                         ELSE [r EXCEPT !.pc = "search", !.vectorstores = vs]]
    /\ UNCHANGED <<sessions, now, uuid_ctr, pool, search, answer, served, snap>>

\* k=4 of the call in ask_question, k=6 of the call in summarize_pdf
AskK == 4

SummarizeK == 6

TopK(op) == IF op = "summarize" THEN SummarizeK ELSE AskK

\* whether merged_similarity_search returns any chunk, for every way n
\* selected stores may rank their chunks for the query
SearchOutcomes ==
    [n \in 0..Max(MaxSel, MaxDocs), op \in {"ask", "summarize"} |->
        {merged_similarity_search(vectorstores, TopK(op)) # <<>> :
            vectorstores \in {vs \in StoreLists : Len(vs) = n}}]

\* docs = merged_similarity_search(...); `if not docs: return ...`;
\* generate_response.  compare searches each store by itself and has no such
\* return: it generates from whatever was found
QuerySearch(w) ==
    LET r == req[w] IN
    /\ r.pc = "search"
    /\ \E found \in IF r.op = "compare" THEN BOOLEAN
                     ELSE SearchOutcomes[Len(r.vectorstores), r.op] :
          req' = [req EXCEPT ![w] =
                     IF ~found /\ r.op # "compare"
                     THEN Finish(r, MsgNoContext(r.op))
                     ELSE Finish([r EXCEPT !.retrieved = found,
                                           !.generated = TRUE], MsgGenerated)]
    /\ UNCHANGED <<sessions, now, uuid_ctr, pool, search, answer, served, snap>>

Next ==
    \/ \E w \in Workers : Start(w)
    \/ \E w \in Workers : Unrouted(w)
    \/ \E w \in Workers : SweepClock(w)
    \/ \E w \in Workers : SweepNext(w)
    \/ \E w \in Workers : SweepDel(w)
    \/ \E w \in Workers : IngestLoad(w)
    \/ \E w \in Workers : IngestCheck(w)
    \/ \E w \in Workers : IngestNewClock(w)
    \/ \E w \in Workers : IngestNew(w)
    \/ \E w \in Workers : IngestAdd(w)
    \/ \E w \in Workers : IngestTouchClock(w)
    \/ \E w \in Workers : IngestTouch(w)
    \/ \E w \in Workers : QueryGet(w)
    \/ \E w \in Workers : QueryTouchClock(w)
    \/ \E w \in Workers : QueryTouch(w)
    \/ \E w \in Workers : QueryDocs(w)
    \/ \E w \in Workers : QuerySearch(w)

Spec == Init /\ [][Next]_vars

SeqSpec == InitSeq /\ [][Next]_vars

(***************************************************************************)
(* The sanitizers: extract_clean_answer of main.py, which the endpoints    *)
(* call, and utils/postprocess.py.                                         *)
(*                                                                         *)
(* A text is the sequence of its tokens and stands for their               *)
(* concatenation.  The tokens are the pieces the regular expressions tell  *)
(* apart: a terminal label, ":", " ", "\n", ".", the header word           *)
(* "Context", the instruction "Do NOT repeat", the plain word "ok" and the *)
(* single letter "z".                                                      *)
(***************************************************************************)
\* pieces a raw text is built from
MaxPieces == 4

RECURSIVE Concat(_)
\* the concatenation of a list of texts
Concat(texts) == IF texts = <<>> THEN <<>> ELSE Head(texts) \o Concat(Tail(texts))

\* the label the prompt of each endpoint ends with
TerminalLabel == [ask |-> "Answer", summarize |-> "Summary", compare |-> "Comparison"]

\* what a model that echoes its prompt puts out: the terminal marker, a bare
\* label, a context header, answer text, line breaks, blanks, letters spaced
\* out by the PDF parser, a full stop, an instruction sentence
Pieces(label) ==
    {<<label, ":", " ">>, <<label>>, <<"Context", ":", " ">>, <<"ok">>,
     <<"\n">>, <<" ">>, <<"z", " ", "z", " ", "z">>, <<".">>, <<"Do NOT repeat">>}

RawTexts(label) == {Concat(pieces) : pieces \in SeqsUpTo(Pieces(label), MaxPieces)}

FallbackAnswer == "I could not find a relevant answer in the document."

FallbackSummary == "I could not generate a summary for this document."

FallbackComparison == "I could not generate a comparison for these documents."

\* \s
IsSpace(t) == t \in {" ", "\n"}

\* the token begins and ends with a word character (\b falls between such a
\* token and one that is not)
IsWord(t) == t \notin {" ", "\n", ":", "."}

RECURSIVE SkipSpace(_, _)
\* \s* from position i on: the position of the first token it does not take
SkipSpace(s, i) ==
    IF i <= Len(s) /\ IsSpace(s[i]) THEN SkipSpace(s, i + 1) ELSE i

RECURSIVE LastNonSpace(_, _)
LastNonSpace(s, i) ==
    IF i >= 1 /\ IsSpace(s[i]) THEN LastNonSpace(s, i - 1) ELSE i

\* str.strip()
strip(s) == SubSeq(s, SkipSpace(s, 1), LastNonSpace(s, Len(s)))

\* (?:^|\n)\s* begun at position q: where the label has to stand
LabelAfter(s, q) == IF q = 1 THEN SkipSpace(s, 1) ELSE SkipSpace(s, q + 1)

\* (?:^|\n)\s*<label> matches from position q
MatchesAt(s, q, label) ==
    /\ q = 1 \/ s[q] = "\n"
    /\ LabelAfter(s, q) <= Len(s)
    /\ s[LabelAfter(s, q)] = label

\* the leftmost match at or after pos (0: none)
FirstMatch(s, pos, label) ==
    LET Q == {q \in pos..Len(s) : MatchesAt(s, q, label)}
    IN  IF Q = {} THEN 0 ELSE CHOOSE q \in Q : \A p \in Q : q <= p

\* \s*[:\-]?\s*\n? after the label at position j: the first position past it
MarkerEnd(s, j) ==
    LET a == SkipSpace(s, j + 1)
    IN  IF a <= Len(s) /\ s[a] = ":" THEN SkipSpace(s, a + 1) ELSE a

RECURSIVE splitlines(_)
\* str.splitlines()
splitlines(s) ==
    IF s = <<>> THEN <<>>
    ELSE LET N == {i \in 1..Len(s) : s[i] = "\n"}
         IN  IF N = {} THEN <<s>>
             ELSE LET i == CHOOSE i \in N : \A j \in N : i <= j
                  IN  <<SubSeq(s, 1, i - 1)>> \o splitlines(SubSeq(s, i + 1, Len(s)))

RECURSIVE join(_, _)
\* sep.join(parts)
join(sep, parts) ==
    IF parts = <<>> THEN <<>>
    ELSE IF Len(parts) = 1 THEN parts[1]
    ELSE parts[1] \o <<sep>> \o join(sep, Tail(parts))

RECURSIVE CollapseBlanks(_)
\* re.sub(r'[ \t]{2,}', ' ', raw)
CollapseBlanks(s) ==
    IF s = <<>> THEN <<>>
    ELSE IF Len(s) >= 2 /\ s[1] = " " /\ s[2] = " " THEN CollapseBlanks(Tail(s))
    ELSE <<Head(s)>> \o CollapseBlanks(Tail(s))

RECURSIVE CollapseNewlines(_)
\* re.sub(r'\n{3,}', '\n\n', raw)
CollapseNewlines(s) ==
    IF s = <<>> THEN <<>>
    ELSE IF Len(s) >= 3 /\ s[1] = "\n" /\ s[2] = "\n" /\ s[3] = "\n"
    THEN CollapseNewlines(Tail(s))
    ELSE <<Head(s)>> \o CollapseNewlines(Tail(s))

RECURSIVE SpacedEnd(_, _)
\* the last letter of the longest run letter, blank, letter, ... from i on
SpacedEnd(s, i) ==
    IF i + 2 <= Len(s) /\ s[i + 1] = " " /\ s[i + 2] = "z"
    THEN SpacedEnd(s, i + 2) ELSE i

\* \b(?:[A-Za-z] ){2,}[A-Za-z]\b matches from position i: the position of
\* its last letter (0: no match)
SpacedMatch(s, i) ==
    IF ~(s[i] = "z" /\ (i = 1 \/ ~IsWord(s[i - 1]))) THEN 0
    ELSE LET e == SpacedEnd(s, i)
             last == IF e = Len(s) \/ ~IsWord(s[e + 1]) THEN e ELSE e - 2
         IN  IF last >= i + 4 THEN last ELSE 0

RECURSIVE JoinSpaced(_, _)
JoinSpaced(s, i) ==
    IF i > Len(s) THEN <<>>
    ELSE LET last == SpacedMatch(s, i)
         IN  IF last = 0 THEN <<s[i]>> \o JoinSpaced(s, i + 1)
             ELSE SelectSeq(SubSeq(s, i, last), LAMBDA t : t # " ")
                  \o JoinSpaced(s, last + 1)

\* normalize_spaced_text of main.py
normalize_spaced_text(text) == JoinSpaced(text, 1)

\* the fallback left out
OrEmpty(raw, fallback) == raw

\* return raw if raw else <fallback>
OrFallback(raw, fallback) == IF raw # <<>> THEN raw ELSE <<fallback>>

(***************************************************************************)
(* main.py: extract_clean_answer                                           *)
(***************************************************************************)
\* step 1: re.search of the 'Answer' marker; group(1).strip()
AfterAnswerMarker(raw) ==
    LET q == FirstMatch(raw, 1, "Answer")
    IN  IF q = 0 THEN raw
        ELSE strip(SubSeq(raw, MarkerEnd(raw, LabelAfter(raw, q)), Len(raw)))

\* combined.match(ln) for the ECHO_PATTERNS of main.py
IsEcho(ln) ==
    LET j == SkipSpace(ln, 1)
    IN  /\ j <= Len(ln)
        /\ ln[j] = "Context"
        /\ SkipSpace(ln, j + 1) <= Len(ln)
        /\ ln[SkipSpace(ln, j + 1)] = ":"

\* step 2: drop the echo lines
DropEchoLines(raw) ==
    join("\n", SelectSeq(splitlines(raw), LAMBDA ln : ~IsEcho(ln)))

\* steps 1 to 4, before the fallback
CleanAnswerText(raw) ==
    normalize_spaced_text(
        strip(CollapseNewlines(CollapseBlanks(DropEchoLines(AfterAnswerMarker(raw))))))

extract_clean_answer(raw) == OrFallback(CleanAnswerText(raw), FallbackAnswer)

(***************************************************************************)
(* utils/postprocess.py                                                    *)
(***************************************************************************)
RECURSIVE LastMarkerEnd(_, _, _, _)
\* list(marker_re.finditer(text))[-1].end()  (0: no match)
LastMarkerEnd(text, pos, label, last) ==
    LET q == FirstMatch(text, pos, label)
    IN  IF q = 0 THEN last
        ELSE LastMarkerEnd(text, MarkerEnd(text, LabelAfter(text, q)), label,
                           MarkerEnd(text, LabelAfter(text, q)))

_split_on_marker(text, label) ==
    LET end == LastMarkerEnd(text, 1, label, 0)
    IN  IF end = 0 THEN text ELSE strip(SubSeq(text, end, Len(text)))

\* _ECHO_RE.match(ln)
IsEchoLine(ln) ==
    LET j == SkipSpace(ln, 1)
    IN  /\ j <= Len(ln)
        /\ \/ ln[j] = "Do NOT repeat"
           \/ /\ ln[j] = "Context"
              /\ SkipSpace(ln, j + 1) <= Len(ln)
              /\ ln[SkipSpace(ln, j + 1)] = ":"

_filter_echo_lines(text) ==
    join("\n", SelectSeq(splitlines(text), LAMBDA ln : ~IsEchoLine(ln)))

RECURSIVE SplitSentences(_)
\* re.split(r'(?<=[.?!])\s+', text)
SplitSentences(text) ==
    LET B == {i \in 1..(Len(text) - 1) : text[i] = "." /\ IsSpace(text[i + 1])}
    IN  IF B = {} THEN <<text>>
        ELSE LET i == CHOOSE i \in B : \A j \in B : i <= j
             IN  <<SubSeq(text, 1, i)>>
                 \o SplitSentences(SubSeq(text, SkipSpace(text, i + 1), Len(text)))

\* _SENTENCE_ECHO_RE.search(s)
IsEchoSentence(s) == \E i \in 1..Len(s) : s[i] = "Do NOT repeat"

_filter_echo_sentences(text) ==
    join(" ", SelectSeq(SplitSentences(text), LAMBDA s : ~IsEchoSentence(s)))

_normalize_spaced_text(text) == JoinSpaced(text, 1)

\* leading_marker_re.sub("", raw)
StripLeadingMarker(raw, label) ==
    IF /\ raw # <<>>
       /\ raw[1] = label
       /\ SkipSpace(raw, 2) <= Len(raw)
       /\ raw[SkipSpace(raw, 2)] = ":"
    THEN SubSeq(raw, SkipSpace(raw, SkipSpace(raw, 2) + 1), Len(raw))
    ELSE raw

\* steps 1 to 7 of _clean, before the fallback
CleanText(llm_output, label) ==
    strip(StripLeadingMarker(
        _normalize_spaced_text(
            strip(CollapseNewlines(CollapseBlanks(
                _filter_echo_sentences(
                    _filter_echo_lines(
                        _split_on_marker(strip(llm_output), label))))))),
        label))

_clean(llm_output, label, fallback) == OrFallback(CleanText(llm_output, label), fallback)

extract_final_answer(llm_output) == _clean(llm_output, "Answer", FallbackAnswer)

extract_final_summary(llm_output) == _clean(llm_output, "Summary", FallbackSummary)

extract_comparison(llm_output) == _clean(llm_output, "Comparison", FallbackComparison)

(***************************************************************************)
(* A sanitizer call                                                        *)
(***************************************************************************)
\* the sanitizer and the endpoint whose generated text it cleans: the three
\* functions of postprocess.py each serve one endpoint, extract_clean_answer
\* is what all three endpoints of main.py call
Sanitizers ==
    {<<"extract_final_answer", "ask">>, <<"extract_final_summary", "summarize">>,
     <<"extract_comparison", "compare">>, <<"extract_clean_answer", "ask">>,
     <<"extract_clean_answer", "summarize">>, <<"extract_clean_answer", "compare">>}

\* the label the function looks for
LabelOf(fn) ==
    CASE fn = "extract_final_summary" -> "Summary"
      [] fn = "extract_comparison" -> "Comparison"
      [] OTHER -> "Answer"

\* the text the function's marker step is given, and what that step returns
MarkerStepInput(fn, raw) == IF fn = "extract_clean_answer" THEN raw ELSE strip(raw)

MarkerStep(fn, raw) ==
    IF fn = "extract_clean_answer" THEN AfterAnswerMarker(raw)
    ELSE _split_on_marker(strip(raw), LabelOf(fn))

\* the text left when the cleaning steps are done
Cleaned(fn, raw) ==
    IF fn = "extract_clean_answer" THEN CleanAnswerText(raw)
    ELSE CleanText(raw, LabelOf(fn))

Apply(fn, raw) ==
    CASE fn = "extract_final_answer" -> extract_final_answer(raw)
      [] fn = "extract_final_summary" -> extract_final_summary(raw)
      [] fn = "extract_comparison" -> extract_comparison(raw)
      [] OTHER -> extract_clean_answer(raw)

\* a sanitizer is about to be called on the text the model generated
InitSanitize ==
    /\ sessions = <<>>
    /\ now = 0
    /\ uuid_ctr = 0
    /\ req = [w \in Workers |-> Idle]
    /\ pool = 1
    /\ served = 0
    /\ snap = <<>>
    /\ search = NoCall
    /\ \E f \in Sanitizers :
          \E raw \in RawTexts(TerminalLabel[f[2]]) :
             answer = [pc |-> "raw", fn |-> f[1], endpoint |-> f[2], raw |-> raw,
                       split |-> <<>>, text |-> <<>>, out |-> <<>>, again |-> <<>>]

\* the call; the text after the marker step and the text before the fallback
\* are kept beside the result
Sanitize ==
    /\ answer.pc = "raw"
    /\ answer' = [answer EXCEPT !.pc = "once",
                                !.split = MarkerStep(answer.fn, answer.raw),
                                !.text = Cleaned(answer.fn, answer.raw),
                                !.out = Apply(answer.fn, answer.raw)]
    /\ UNCHANGED <<sessions, now, uuid_ctr, req, pool, served, snap, search>>

\* the same function called on its own result
SanitizeAgain ==
    /\ answer.pc = "once"
    /\ answer' = [answer EXCEPT !.pc = "twice",
                                !.again = Apply(answer.fn, answer.out)]
    /\ UNCHANGED <<sessions, now, uuid_ctr, req, pool, served, snap, search>>

SanitizeNext == Sanitize \/ SanitizeAgain

SanitizeSpec == InitSanitize /\ [][SanitizeNext]_vars

(***************************************************************************)
(* Properties                                                              *)
(***************************************************************************)
\* the handler of r has found or created its session and has not returned
InUse(r) ==
    \/ r.op = "process_pdf" /\ r.pc \in {"add", "la_clk", "la"}
    \/ r.op \in Queries /\ r.pc \in {"touch_clk", "touch", "docs", "search"}

\* the map m without the sessions that at time t lie more than the timeout back
Live(m, t) ==
    [sid \in {x \in DOMAIN m : t - m[x].last_accessed <= SESSION_TIMEOUT} |-> m[sid]]

\* under the id of r the arriving request met a session that had run out by
\* the time of the request's sweep
MetExpired(r) ==
    /\ r.session_id \in DOMAIN snap
    /\ r.current_time - snap[r.session_id].last_accessed > SESSION_TIMEOUT

\* the process-pdf requests that have returned successfully for session sid
Ingested(sid) ==
    {w \in Workers : /\ req[w].pc = "done"
                     /\ req[w].op = "process_pdf"
                     /\ req[w].session_id = sid
                     /\ req[w].result = "PDF processed successfully"}

\* C1: when process-pdf requests that ran at the same time for one session id
\* have all returned successfully (and the clock has not passed the timeout,
\* so that nothing can have expired), the session holds every one of their
\* documents, under pairwise distinct doc ids.
C1_NoLostIngest ==
    \A sid \in SessionIds :
        (Cardinality(Ingested(sid)) >= 2 /\ now <= SESSION_TIMEOUT)
            => /\ sid \in DOMAIN sessions
               /\ \A w \in Ingested(sid) : req[w].doc_id \in Range(sessions[sid].docs)
               /\ \A v, w \in Ingested(sid) : v # w => req[v].doc_id # req[w].doc_id

\* C2: no step removes from the map a session that a handler has found or
\* created and is still using; stated for a session that has not run out at
\* the current clock value, which a sweep can only remove on the strength of
\* an older last_accessed.
C2_NoSweepMidUse ==
    [][\A w \in Workers :
          (/\ InUse(req[w])
           /\ req[w].session_id \in DOMAIN sessions
           /\ now - sessions[req[w].session_id].last_accessed <= SESSION_TIMEOUT)
              => req[w].session_id \in DOMAIN sessions']_vars

\* C3: a sweep always completes without a fault: it never deletes a session
\* id that is no longer in the map and never finds the map changed under its
\* iteration.
C3_SweepNeverFaults ==
    \A w \in Workers :
        req[w].result \notin
            {"500 KeyError in cleanup_expired_sessions",
             "500 RuntimeError in cleanup_expired_sessions: dictionary changed size during iteration"}

\* C4: when a sweep that read the clock at current_time has run without
\* interference, the map holds precisely the sessions of the map it started
\* from that have current_time - last_accessed <= SESSION_TIMEOUT, each
\* unchanged.
C4_SweepRemovesExactlyExpired ==
    \A w \in Workers :
        req[w].pc \in {"load", "get"} => sessions = Live(snap, req[w].current_time)

\* C4 witness: a sweep has removed one session and kept another.
C4_Witness ==
    \E w \in Workers :
        /\ req[w].pc \in {"load", "get"}
        /\ \E kept \in DOMAIN sessions : snap[kept].last_accessed < req[w].current_time
        /\ \E gone \in DOMAIN snap : gone \notin DOMAIN sessions

\* C5: with requests handled one at a time, a session that had run out by
\* the time of a request's sweep is gone once that sweep is over; the request
\* does not reach retrieval on it, a query under its id returns the 'session
\* expired' response without generating, and a successful ingest under its
\* id leaves a session that holds the new document alone.
C5_ExpiredNeverServed ==
    \A w \in Workers :
        LET r == req[w] IN
        /\ (r.op \in Ops /\ r.pc \notin {"sweep", "iter", "del"})
              => \A sid \in DOMAIN snap :
                    (r.current_time - snap[sid].last_accessed > SESSION_TIMEOUT
                     /\ sid \in DOMAIN sessions)
                        => /\ r.op = "process_pdf"
                           /\ sid = r.session_id
                           /\ Range(sessions[sid].docs) \subseteq {r.doc_id}
        /\ (r.pc = "search") => ~MetExpired(r)
        /\ (r.pc = "done" /\ r.op \in Queries /\ MetExpired(r))
              => /\ r.result \in {"Session expired or no PDF uploaded for this session.",
                                  "Session expired or no PDFs uploaded for this session."}
                 /\ ~r.generated
        /\ (r.pc = "done" /\ r.op = "process_pdf" /\ MetExpired(r)
            /\ r.result = "PDF processed successfully")
              => sessions[r.session_id].docs = <<r.doc_id>>

\* C5 witness: an ingest under the id of a session that had run out has
\* returned successfully.
C5_Witness ==
    \E w \in Workers :
        /\ req[w].pc = "done"
        /\ req[w].op = "process_pdf"
        /\ req[w].result = "PDF processed successfully"
        /\ MetExpired(req[w])
        /\ snap[req[w].session_id].docs # <<>>

\* C6: the last_accessed stored under a session id never decreases while the
\* id stays in the map.
C6_LastAccessedMonotone ==
    [][\A sid \in DOMAIN sessions \cap DOMAIN sessions' :
          sessions'[sid].last_accessed >= sessions[sid].last_accessed]_vars

\* C7: with requests handled one at a time, ask, summarize and compare on a
\* session id that is absent or has run out return the fixed 'session
\* expired' response as a normal result, leave no session under that id and
\* do not generate.
C7_AbsentSessionResponse ==
    \A w \in Workers :
        LET r == req[w] IN
        (r.pc = "done" /\ r.op \in Queries
         /\ (r.session_id \notin DOMAIN snap \/ MetExpired(r)))
            => /\ r.result = IF r.op = "compare"
                             THEN "Session expired or no PDFs uploaded for this session."
                             ELSE "Session expired or no PDF uploaded for this session."
               /\ r.session_id \notin DOMAIN sessions
               /\ ~r.generated

\* C7 witness: a query on an id that never had a session has returned, while
\* another session exists.
C7_Witness ==
    \E w \in Workers :
        /\ req[w].pc = "done"
        /\ req[w].op \in Queries
        /\ req[w].session_id \notin DOMAIN snap
        /\ DOMAIN snap # {}

\* C8: with requests handled one at a time, an ingest whose document yields
\* no chunks returns the 'no text chunks' error and leaves the map as its
\* sweep left it: no session created, no document added, no last_accessed
\* changed.
C8_EmptyIngestChangesNothing ==
    \A w \in Workers :
        LET r == req[w] IN
        (r.pc = "done" /\ r.op = "process_pdf" /\ ~r.has_text)
            => /\ r.result = "No text chunks generated from the PDF. Please check your file."
               /\ sessions = Live(snap, r.current_time)

\* C8 witness: an empty document was sent under a session id that had no
\* session, while another session existed.
C8_Witness ==
    \E w \in Workers :
        /\ req[w].pc = "done"
        /\ req[w].op = "process_pdf"
        /\ ~req[w].has_text
        /\ req[w].session_id \notin DOMAIN snap
        /\ DOMAIN sessions # {}

\* C9: compare generates only when the request selects at least 2 different
\* documents that exist in the session.
C9_CompareNeedsTwoDocuments ==
    \A w \in Workers :
        LET r == req[w] IN
        (r.pc = "done" /\ r.op = "compare" /\ r.generated)
            => /\ r.session_id \in DOMAIN sessions
               /\ Cardinality(Range(r.doc_ids) \cap Range(sessions[r.session_id].docs)) >= 2

\* C10: after reset(session_id) has returned, the session and its documents
\* are gone.
C10_ResetRemovesSession ==
    \A w \in Workers :
        (req[w].pc = "done" /\ req[w].op = "reset")
            => req[w].session_id \notin DOMAIN sessions

\* what the stores of the call return, store after store, each in rank order
Candidates ==
    Concat([i \in 1..Len(search.vectorstores) |->
               [j \in 1..Min(search.per_store_k, Len(search.vectorstores[i])) |->
                   [page_content |-> search.vectorstores[i][j], store |-> i, rank |-> j]]])

\* the candidate at position p is the first one with its text
FirstOfText(cands, p) ==
    \A q \in 1..(p - 1) : cands[q].page_content # cands[p].page_content

\* the candidates that are the first of their text, in candidate order
Deduplicated(cands) == SelectSeq(cands, LAMBDA c :
    \E p \in 1..Len(cands) : cands[p] = c /\ FirstOfText(cands, p))

\* C11: the result of merged_similarity_search holds no text twice; every
\* chunk in it is, among the candidates (stores in the order given, each list
\* in rank order), the first one with its text; the results keep the order of
\* the candidates; two stores that each return one chunk with the same text
\* give exactly 1 result.
C11_DedupKeepsFirst ==
    search.pc = "done" =>
        LET R == search.results
            pos(i) == CHOOSE p \in 1..Len(Candidates) : Candidates[p] = R[i]
        IN  /\ \A i, j \in 1..Len(R) :
                  i < j => R[i].page_content # R[j].page_content
            /\ \A i \in 1..Len(R) :
                  /\ \E p \in 1..Len(Candidates) : Candidates[p] = R[i]
                  /\ FirstOfText(Candidates, pos(i))
            /\ \A i, j \in 1..Len(R) : i < j => pos(i) < pos(j)
            /\ (/\ Len(search.vectorstores) = 2
                /\ Len(search.vectorstores[1]) = 1
                /\ search.vectorstores[2] = search.vectorstores[1])
                  => Len(R) = 1

\* C11 witness: a call has returned in which a later store repeated a text of
\* an earlier one and also brought a new text.
C11_Witness ==
    /\ search.pc = "done"
    /\ Len(search.results) >= 2
    /\ \E p, q \in 1..Len(Candidates) :
          /\ p < q
          /\ Candidates[p].page_content = Candidates[q].page_content
          /\ Candidates[p].store < Candidates[q].store

\* C12: the result is the prefix of the deduplicated candidate list of length
\* min(k * numStores, number of deduplicated candidates); it never has more
\* than k * numStores entries.
C12_TruncatedPrefix ==
    search.pc = "done" =>
        LET D == Deduplicated(Candidates)
            n == Len(search.vectorstores)
        IN  /\ search.results = SubSeq(D, 1, Min(search.k * n, Len(D)))
            /\ Len(search.results) <= search.k * n

\* C12 witness: a call has returned whose deduplicated candidates were more
\* than k * numStores, so that the cut dropped some.
C12_Witness ==
    /\ search.pc = "done"
    /\ Len(search.vectorstores) >= 1
    /\ Len(Deduplicated(Candidates)) > search.k * Len(search.vectorstores)

\* C13: with k >= 1 and n >= 1 stores, the number of candidates requested
\* from each store is max(k, ceil(2k / n)).
C13_PerStoreK ==
    (search.pc = "done" /\ Len(search.vectorstores) >= 1) =>
        LET n == Len(search.vectorstores)
            ceil == (2 * search.k + n - 1) \div n
        IN  search.per_store_k = IF search.k >= ceil THEN search.k ELSE ceil

\* C13 witness: a call has returned for which 2k / n is not a whole number.
C13_Witness ==
    /\ search.pc = "done"
    /\ Len(search.vectorstores) >= 1
    /\ (2 * search.k) % Len(search.vectorstores) # 0

\* C14: with requests handled one at a time, ask and summarize look the
\* session up, then resolve the selected documents, then retrieve, and only
\* then generate: a handler is past the lookup only with a live session,
\* reaches retrieval only with at least one resolved document, and has
\* generated only if the retrieval returned a chunk.  With a live session
\* and no document resolved the response is 'No documents found'; with
\* documents resolved and no chunk retrieved it is the handler's 'no
\* context' response; neither generates.
C14_GenerationOrder ==
    \A w \in Workers :
        LET r == req[w]
            before == Live(snap, r.current_time)
            live == r.session_id \in DOMAIN before
            selected == get_session_docs(before, r.session_id, r.doc_ids)
        IN  r.op \in {"ask", "summarize"} =>
            /\ r.pc \in {"touch_clk", "touch", "docs"} => live
            /\ r.pc = "search" => live /\ selected # <<>> /\ r.vectorstores = selected
            /\ r.generated => r.pc = "done" /\ live /\ selected # <<>> /\ r.retrieved
            /\ (r.pc = "done" /\ live /\ selected = <<>>)
                  => /\ r.result = "No documents found for the selected session."
                     /\ ~r.generated
            /\ (r.pc = "done" /\ live /\ selected # <<>> /\ ~r.retrieved)
                  => /\ r.result = IF r.op = "ask"
                                   THEN "No relevant context found in the selected documents."
                                   ELSE "No document context available to summarize."
                     /\ ~r.generated

\* C14 witness: an ask that named one known and one unknown document has
\* generated an answer.
C14_Witness ==
    \E w \in Workers :
        /\ req[w].pc = "done"
        /\ req[w].op = "ask"
        /\ req[w].generated
        /\ Len(req[w].doc_ids) = 2
        /\ Len(get_session_docs(sessions, req[w].session_id, req[w].doc_ids)) = 1

LabelOccurrences(raw, label) ==
    {j \in 1..Len(raw) :
        /\ raw[j] = label
        /\ \E a \in 1..j :
              /\ a = 1 \/ raw[a - 1] = "\n"
              /\ \A i \in a..(j - 1) : raw[i] = " "
        /\ \E c \in (j + 1)..Len(raw) :
              /\ raw[c] = ":"
              /\ \A i \in (j + 1)..(c - 1) : raw[i] = " "}

\* the text after the colon of the label at position j
AfterOccurrence(raw, j) ==
    LET c == CHOOSE c \in (j + 1)..Len(raw) :
                 raw[c] = ":" /\ \A i \in (j + 1)..(c - 1) : raw[i] = " "
    IN  SubSeq(raw, c + 1, Len(raw))

\* C16: the marker-split step, in postprocess.py and in the sanitizer the
\* endpoints call, keeps only the text after the last occurrence of the
\* endpoint's terminal label (the label at a line start followed by a
\* colon), surrounding white space apart; a text without such an occurrence
\* passes the step unchanged.
C16_SplitOnLastMarker ==
    answer.pc \in {"once", "twice"} =>
        LET label == TerminalLabel[answer.endpoint]
            occ == LabelOccurrences(answer.raw, label)
            last == CHOOSE j \in occ : \A i \in occ : i <= j
        IN  IF occ = {}
            THEN answer.split = MarkerStepInput(answer.fn, answer.raw)
            ELSE answer.split = strip(AfterOccurrence(answer.raw, last))

\* the raw text is built from terminal markers (at least one), header
\* starts, instruction sentences, answer words, blanks and line breaks
EchoedPrompt(raw, label) ==
    /\ \A i \in 1..Len(raw) :
          /\ raw[i] \in {label, ":", " ", "\n", "Context", "Do NOT repeat", "ok"}
          /\ raw[i] \in {label, "Context"} => (i < Len(raw) /\ raw[i + 1] = ":")
    /\ \E i \in 1..Len(raw) : raw[i] = label

\* C17: on an echoed prompt (markers, also repeated, header and instruction
\* lines, answer text) a sanitizer applied to its own result returns that
\* result.
C17_Idempotent ==
    (answer.pc = "twice" /\ EchoedPrompt(answer.raw, LabelOf(answer.fn)))
        => answer.again = answer.out

\* C18: the body of every /ask response carries a citations list, sorted
\* ascending by source and page with no pair twice, and empty when no session
\* matches the request.
C18_AskCarriesCitations ==
    \A w \in Workers :
        LET r == req[w]
            body == Response(r)
        IN  (r.pc = "done" /\ r.op = "ask"
             /\ r.result \in {"<extract_clean_answer(generate_response(prompt))>",
                              "Session expired or no PDF uploaded for this session."})
                => /\ "citations" \in DOMAIN body
                   /\ \A i, j \in 1..Len(body.citations) :
                         i < j => \/ body.citations[i].source < body.citations[j].source
                                  \/ /\ body.citations[i].source = body.citations[j].source
                                     /\ body.citations[i].page < body.citations[j].page
                   /\ r.session_id \notin DOMAIN sessions => body.citations = <<>>

\* q starts with p
IsPrefix(p, q) == Len(p) <= Len(q) /\ SubSeq(q, 1, Len(p)) = p

\* C19: no step other than a sweep's deletion of an expired session removes
\* or replaces a document of a session; the step of process-pdf that stores
\* the new index adds exactly one entry to the target session, under a doc id
\* that is not yet a key of it, and leaves the other sessions as they are;
\* a process-pdf that has returned successfully leaves its session in the map.
C19_IngestOnlyAdds ==
    [][/\ \A sid \in DOMAIN sessions :
             IF sid \in DOMAIN sessions'
             THEN IsPrefix(sessions[sid].docs, sessions'[sid].docs)
             ELSE \E w \in Workers : req[w].pc = "del" /\ sid \in req[w].expired
       /\ \A w \in Workers :
             (req[w].pc = "add" /\ req'[w].pc = "la_clk")
                => LET sid == req[w].session_id IN
                   /\ sid \in DOMAIN sessions
                   /\ req[w].doc_id \notin Range(sessions[sid].docs)
                   /\ sessions'[sid].docs = Append(sessions[sid].docs, req[w].doc_id)
                   /\ \A x \in DOMAIN sessions \ {sid} :
                         x \in DOMAIN sessions' /\ sessions'[x] = sessions[x]
       /\ \A w \in Workers :
             (req[w].pc = "la" /\ req'[w].pc = "done"
              /\ req'[w].result = "PDF processed successfully")
                => /\ req[w].session_id \in DOMAIN sessions'
                   /\ req[w].doc_id \in Range(sessions'[req[w].session_id].docs)]_vars

\* C20: with requests handled one at a time, every session in the map holds
\* at least one document whenever no ingest is between creating it and
\* storing its first index, so between requests no session is empty; a query
\* that finds its session and selects all documents reaches retrieval, and
\* no query reaches retrieval with an empty set of stores.
C20_NoEmptySession ==
    /\ \A sid \in DOMAIN sessions :
          sessions[sid].docs = <<>>
             => \E w \in Workers : /\ req[w].op = "process_pdf"
                                   /\ req[w].pc = "add"
                                   /\ req[w].session_id = sid
    /\ Active = {} => \A sid \in DOMAIN sessions : Len(sessions[sid].docs) >= 1
    /\ \A w \in Workers :
          /\ req[w].pc = "search" => Len(req[w].vectorstores) >= 1
          /\ (req[w].pc = "done" /\ req[w].op \in {"ask", "summarize"}
              /\ req[w].doc_ids = <<>>)
                => req[w].result # "No documents found for the selected session."

\* C20 witness: a query without doc_ids is at the retrieval, on a session
\* that holds two documents.
C20_Witness ==
    \E w \in Workers :
        /\ req[w].pc = "search"
        /\ req[w].op \in {"ask", "summarize"}
        /\ req[w].doc_ids = <<>>
        /\ Len(req[w].vectorstores) = 2
\* the doc ids session sid holds in the map (none when it has no session)
DocsOf(sid) == IF sid \in DOMAIN sessions THEN Range(sessions[sid].docs) ELSE {}

\* what the claim says get_session_docs returns for the request r
ListedOfSession(r) ==
    IF r.doc_ids # <<>>
    THEN SelectSeq(r.doc_ids, LAMBDA d : d \in DocsOf(r.session_id))
    ELSE IF r.session_id \in DOMAIN sessions THEN sessions[r.session_id].docs
         ELSE <<>>

\* C21: with requests handled one at a time, the stores a query retrieves
\* from are the ones get_session_docs returned: with doc_ids, the listed ids
\* that this session holds, in request order, ids that are unknown or held
\* by another session being skipped; without doc_ids, all documents of the
\* session.  A query answers 'no documents' exactly when that list is too
\* short.  A doc id enters a session only through a process-pdf request
\* sent under that session id, and is never held by two sessions, so no
\* query retrieves from a document ingested under another session id.
C21_SessionIsolation ==
    /\ [](/\ \A w \in Workers :
               LET r == req[w] IN
               /\ r.pc = "search"
                     => /\ r.vectorstores = ListedOfSession(r)
                        /\ Len(r.vectorstores) >= (IF r.op = "compare" THEN 2 ELSE 1)
                        /\ Range(r.vectorstores) \subseteq DocsOf(r.session_id)
                        /\ \A sid \in SessionIds \ {r.session_id} :
                              Range(r.vectorstores) \cap DocsOf(sid) = {}
               /\ (r.pc = "done" /\ r.op \in Queries
                   /\ r.result \in {"No documents found for the selected session.",
                                    "Could not find enough documents in the session. Please re-upload."})
                     => Len(ListedOfSession(r)) < (IF r.op = "compare" THEN 2 ELSE 1)
          /\ \A s1, s2 \in SessionIds : s1 # s2 => DocsOf(s1) \cap DocsOf(s2) = {})
    /\ [][\A sid \in DOMAIN sessions' :
             \A d \in Range(sessions'[sid].docs) \ DocsOf(sid) :
                \E w \in Workers : /\ req[w].op = "process_pdf"
                                   /\ req[w].session_id = sid
                                   /\ req[w].doc_id = d]_vars

\* C21 witness: a query that listed a document of its own session and a
\* document held by another session is at the retrieval with its own
\* document only.
C21_Witness ==
    \E w \in Workers :
        LET r == req[w] IN
        /\ r.pc = "search"
        /\ Len(r.doc_ids) = 2
        /\ Len(r.vectorstores) = 1
        /\ \E sid \in SessionIds \ {r.session_id} :
              Range(r.doc_ids) \cap DocsOf(sid) # {}
\* C22: with requests handled one at a time, a query that returned a state
\* error or an input error ('session expired', 'no documents found', 'could
\* not find enough documents', 'select at least 2 documents') leaves the
\* session map as its sweep left it: no session added or removed, no
\* document added, no last_accessed changed.
C22_ErrorsLeaveMapAlone ==
    \A w \in Workers :
        LET r == req[w] IN
        (/\ r.pc = "done"
         /\ r.op \in Queries
         /\ r.result \in {"Session expired or no PDF uploaded for this session.",
                          "Session expired or no PDFs uploaded for this session.",
                          "No documents found for the selected session.",
                          "Could not find enough documents in the session. Please re-upload.",
                          "Please select at least 2 documents to compare."})
            => sessions = Live(snap, r.current_time)
====
